---- MODULE Spec2Model ----
(***************************************************************************)
(* Model of the BunnyCDN storage client (models/BunnyCDNStorage.js,        *)
(* models/Checksum.js, models/StorageRegion.js).                           *)
(*                                                                         *)
(* Strings are sequences of one-character strings, so trimming, slash      *)
(* replacement, prefix tests and concatenation are computed character by   *)
(* character as the JavaScript string methods compute them.  An async      *)
(* method is one action per segment between two awaits.                    *)
(***************************************************************************)
EXTENDS Integers, Sequences, FiniteSets, TLC

VARIABLES
    storageZoneName,  \* this.storageZoneName
    apiAccessKey,     \* this.apiAccessKey
    baseAddress,      \* this.baseAddress
    mainRegion,       \* the constructor's region argument (history variable)
    calls,            \* per invocation slot: the locals of the running method
    requests          \* per invocation slot: the fetch() request it issued

vars == <<storageZoneName, apiAccessKey, baseAddress, mainRegion, calls, requests>>

client == <<storageZoneName, apiAccessKey, baseAddress, mainRegion>>

----------------------------------------------------------------------------
(* Bounds *)

NumCalls == 2       \* invocation slots that may run concurrently
MaxPathLen == 4     \* longest raw path argument
MaxZoneLen == 2     \* longest storage zone name
MaxRegionLen == 2   \* longest region code
MaxChunks == 2      \* most chunks an input stream delivers
MaxChunkLen == 2    \* most bytes in one chunk

Procs == 1..NumCalls

SeqsUpTo(S, n) == UNION {[1..k -> S] : k \in 0..n}

PathChars == {"z", "/", "\\", " "}
RegionChars == {"d", "e", "D", "E", "n", "y"}
Bytes == {0, 1}

AllPaths == SeqsUpTo(PathChars, MaxPathLen)
AllZones == SeqsUpTo(PathChars, MaxZoneLen)
AllRegions == SeqsUpTo(RegionChars, MaxRegionLen)
AllChunks == SeqsUpTo(Bytes, MaxChunkLen)
AllStreams == SeqsUpTo(AllChunks, MaxChunks)

Statuses == {200, 204, 302, 400, 401, 404, 500}

----------------------------------------------------------------------------
(* String primitives of JavaScript used by the client *)

Whitespace == {" "}

RECURSIVE trimStart(_)
trimStart(s) ==
    IF s # <<>> /\ Head(s) \in Whitespace THEN trimStart(Tail(s)) ELSE s

RECURSIVE trimEnd(_)
trimEnd(s) ==
    IF s # <<>> /\ s[Len(s)] \in Whitespace
    THEN trimEnd(SubSeq(s, 1, Len(s) - 1))
    ELSE s

\* String.prototype.trim
trim(s) == trimEnd(trimStart(s))

\* .replace(/\\/g, "/")
replaceBackslashes(s) ==
    IF s = <<>> THEN <<>>
    ELSE [k \in 1..Len(s) |-> IF s[k] = "\\" THEN "/" ELSE s[k]]

\* .replace(/^\/+/, "")
RECURSIVE stripLeadingSlashes(_)
stripLeadingSlashes(s) ==
    IF s # <<>> /\ Head(s) = "/" THEN stripLeadingSlashes(Tail(s)) ELSE s

\* Variant: .replace(/\/\//, "/"), only the first pair of slashes is replaced
RECURSIVE collapseSlashes_firstPair(_)
collapseSlashes_firstPair(s) ==
    IF Len(s) < 2 THEN s
    ELSE IF s[1] = "/" /\ s[2] = "/" THEN Tail(s)
    ELSE <<s[1]>> \o collapseSlashes_firstPair(Tail(s))

\* .replace(/\/+/g, "/")
RECURSIVE collapseSlashes(_)
collapseSlashes(s) ==
    IF Len(s) < 2 THEN s
    ELSE IF s[1] = "/" /\ s[2] = "/" THEN collapseSlashes(Tail(s))
    ELSE <<s[1]>> \o collapseSlashes(Tail(s))

\* String.prototype.startsWith
startsWith(s, prefix) ==
    /\ Len(s) >= Len(prefix)
    /\ SubSeq(s, 1, Len(prefix)) = prefix

\* String.prototype.endsWith
endsWith(s, suffix) ==
    /\ Len(s) >= Len(suffix)
    /\ SubSeq(s, Len(s) - Len(suffix) + 1, Len(s)) = suffix

toLowerCaseChar(c) ==
    CASE c = "D" -> "d"
      [] c = "E" -> "e"
      [] OTHER -> c

\* String.prototype.toLowerCase
toLowerCase(s) ==
    IF s = <<>> THEN <<>> ELSE [k \in 1..Len(s) |-> toLowerCaseChar(s[k])]

----------------------------------------------------------------------------
(* #normalizePath, #getBaseAddress, #mapResponseToException *)

\* The path the first line of #normalizePath computes
cleanPath(path) == stripLeadingSlashes(replaceBackslashes(trim(path)))

\* isDirectory as the public operations pass it
isDirectoryOp(op) == op \in {"list", "createFolder", "deleteFolder"}

\* Variant: the prefix test omits the slash, startsWith(this.storageZoneName)
normalizePath_noSlash(path, isDirectory) ==
    LET p1 == cleanPath(path)
        p2 == IF isDirectory
              THEN (IF endsWith(p1, <<"/">>) THEN p1 ELSE p1 \o <<"/">>)
              ELSE p1
    IN  IF ~startsWith(p1, storageZoneName)
        THEN [ok |-> FALSE, path |-> <<>>]
        ELSE [ok |-> TRUE, path |-> collapseSlashes(p2)]

\* Variant: backslashes are replaced last, after the slashes were collapsed
normalizePath_lateReplace(path, isDirectory) ==
    LET p1 == stripLeadingSlashes(trim(path))
        p2 == IF isDirectory
              THEN (IF endsWith(p1, <<"/">>) THEN p1 ELSE p1 \o <<"/">>)
              ELSE p1
    IN  IF ~startsWith(p1, storageZoneName \o <<"/">>)
        THEN [ok |-> FALSE, path |-> <<>>]
        ELSE [ok |-> TRUE, path |-> replaceBackslashes(collapseSlashes(p2))]

\* ok = FALSE is the thrown "Path validation failed" error
normalizePath(path, isDirectory) ==
    LET p1 == cleanPath(path)
        p2 == IF isDirectory
              THEN (IF endsWith(p1, <<"/">>) THEN p1 ELSE p1 \o <<"/">>)
              ELSE p1
    IN  IF ~startsWith(p1, storageZoneName \o <<"/">>)
        THEN [ok |-> FALSE, path |-> <<>>]
        ELSE [ok |-> TRUE, path |-> collapseSlashes(p2)]

DefaultAddress ==
    <<"h","t","t","p","s",":","/","/">>
        \o <<"s","t","o","r","a","g","e",".","b","u","n","n","y","c","d","n",".","c","o","m","/">>

\* Variant: the comparison with "de" is case-sensitive
getBaseAddress_caseSensitive(region) ==
    IF region = <<>> \/ region = <<"d", "e">>
    THEN DefaultAddress
    ELSE <<"h","t","t","p","s",":","/","/">> \o region
            \o <<".","s","t","o","r","a","g","e",".","b","u","n","n","y","c","d","n",".","c","o","m","/">>

getBaseAddress(region) ==
    IF region = <<>> \/ toLowerCase(region) = <<"d", "e">>
    THEN DefaultAddress
    ELSE <<"h","t","t","p","s",":","/","/">> \o region
            \o <<".","s","t","o","r","a","g","e",".","b","u","n","n","y","c","d","n",".","c","o","m","/">>

Err(kind, detail) == [kind |-> kind, detail |-> detail]
NoError == Err("none", <<>>)

\* Variant: the case 400 is missing
mapResponseToException_no400(statusCode, path) ==
    CASE statusCode = 404 -> Err("NotFound", path)
      [] statusCode = 401 -> Err("Unauthorized", storageZoneName)
      [] OTHER -> Err("Unknown", <<>>)

mapResponseToException(statusCode, path) ==
    CASE statusCode = 404 -> Err("NotFound", path)
      [] statusCode = 400 -> Err("InvalidPath", <<>>)
      [] statusCode = 401 -> Err("Unauthorized", storageZoneName)
      [] OTHER -> Err("Unknown", <<>>)

\* Response.ok
responseOk(status) == status >= 200 /\ status <= 299

----------------------------------------------------------------------------
(* Checksum.generate and #bufferStream *)

RECURSIVE concat(_)
\* Buffer.concat
concat(chunks) ==
    IF chunks = <<>> THEN <<>> ELSE Head(chunks) \o concat(Tail(chunks))

\* hash.update(data): absorbs the bytes of data in order.  The compression
\* function of SHA-256 is abstracted by a 16-bit polynomial digest.
RECURSIVE hashUpdate(_, _)
hashUpdate(h, data) ==
    IF data = <<>> THEN h
    ELSE hashUpdate((h * 31 + Head(data) + 1) % 65536, Tail(data))

HexDigits == <<"0","1","2","3","4","5","6","7","8","9","a","b","c","d","e","f">>

\* hash.digest("hex")
digestHex(h) ==
    << HexDigits[((h \div 4096) % 16) + 1], HexDigits[((h \div 256) % 16) + 1],
       HexDigits[((h \div 16) % 16) + 1], HexDigits[(h % 16) + 1] >>

\* The digest of a whole byte string, as lowercase hex
sha256Hex(bytes) == digestHex(hashUpdate(5381, bytes))

RECURSIVE hashChunks(_, _)
hashChunks(h, chunks) ==
    IF chunks = <<>> THEN h
    ELSE hashChunks(hashUpdate(h, Head(chunks)), Tail(chunks))

\* Checksum.generate(stream), for a stream that delivers chunks and ends
generate(chunks) == digestHex(hashChunks(5381, chunks))

\* new PassThrough().end(data): a stream delivering data as one chunk
passThroughEnd(data) == IF data = <<>> THEN <<>> ELSE <<data>>

----------------------------------------------------------------------------
(* Values *)

Null == [null |-> TRUE, str |-> <<>>]
Str(s) == [null |-> FALSE, str |-> s]

\* JavaScript truthiness of a string-or-null value
truthy(v) == ~v.null /\ v.str # <<>>

InputTypes == {"string", "stream", "null", "undefined", "number", "boolean", "object"}

NoInput == [type |-> "undefined", chunks |-> <<>>]

IdleCall ==
    [pc |-> "idle", op |-> "none", path |-> <<>>, normalizedPath |-> <<>>,
     input |-> NoInput, validateChecksum |-> FALSE, sha256Arg |-> Null,
     sha256Checksum |-> Null, contentTypeOverride |-> <<>>, stream |-> <<>>, chunks |-> <<>>,
     bufferedData |-> <<>>, status |-> 0, outcome |-> "none",
     value |-> "none", error |-> NoError, failure |-> FALSE, copy |-> "none"]

NoRequest ==
    [issued |-> FALSE, method |-> "none", url |-> <<>>,
     headers |-> [AccessKey |-> <<>>, Checksum |-> Null, OverrideContentType |-> Null],
     body |-> <<>>]

\* headers: { AccessKey: this.apiAccessKey }
authHeaders == [AccessKey |-> apiAccessKey, Checksum |-> Null, OverrideContentType |-> Null]

\* Variant: the normalized path is kept in a field of the client, so a
\* request is built from the path of an invocation still awaiting its response
fetch_sharedPath(normalizedPath, method, headers, body) ==
    LET waiting == {j \in DOMAIN calls : calls[j].pc = "awaiting"}
        shared == IF waiting = {} THEN normalizedPath
                  ELSE calls[CHOOSE j \in waiting : TRUE].normalizedPath
    IN  [issued |-> TRUE, method |-> method, url |-> baseAddress \o shared,
         headers |-> headers, body |-> body]

\* fetch(`${this.baseAddress}${normalizedPath}`, { method, headers, body })
fetch(normalizedPath, method, headers, body) ==
    [issued |-> TRUE, method |-> method, url |-> baseAddress \o normalizedPath,
     headers |-> headers, body |-> body]

----------------------------------------------------------------------------
(* Construction *)

\* constructor(storageZoneName, apiAccessKey, mainRegion)
construct(zone, key, region) ==
    /\ storageZoneName = zone
    /\ apiAccessKey = key
    /\ mainRegion = region
    /\ baseAddress = getBaseAddress(region)
    /\ calls = [i \in Procs |-> IdleCall]
    /\ requests = [i \in Procs |-> NoRequest]

----------------------------------------------------------------------------
(* Outcomes of an invocation *)

\* throw err: the promise of the method rejects with err
raise(c, err) ==
    [c EXCEPT !.pc = "done", !.outcome = "raised", !.error = err, !.failure = TRUE]

\* return v: the promise of the method resolves with v
return(c, v) ==
    [c EXCEPT !.pc = "done", !.outcome = "returned", !.value = v]

PathValidationError == Err("PathValidation", storageZoneName)

\* The common first segment of the methods without a request body:
\* normalize the path, then fetch and suspend on the response
start(i, op, path, isDirectory, method) ==
    /\ calls[i].pc = "idle"
    /\ LET n == normalizePath(path, isDirectory)
           c == [IdleCall EXCEPT !.op = op, !.path = path]
       IN  IF ~n.ok
           THEN /\ calls' = [calls EXCEPT ![i] = raise(c, PathValidationError)]
                /\ UNCHANGED requests
           ELSE /\ calls' = [calls EXCEPT ![i] =
                        [c EXCEPT !.pc = "awaiting", !.normalizedPath = n.path]]
                /\ requests' = [requests EXCEPT ![i] =
                        fetch(n.path, method, authHeaders, <<>>)]
    /\ UNCHANGED client

\* The segment after `await fetch(...)` of the methods that throw on a
\* non-ok response and otherwise go on to `next`
onResponse(i, op, status, next) ==
    /\ calls[i].pc = "awaiting"
    /\ calls[i].op = op
    /\ LET c == [calls[i] EXCEPT !.status = status]
       IN  calls' = [calls EXCEPT ![i] =
               IF responseOk(status)
               THEN next
               ELSE raise(c, mapResponseToException(status, c.normalizedPath))]
    /\ UNCHANGED <<client, requests>>

----------------------------------------------------------------------------
(* Public operations, first segment *)

delete(i, path) == start(i, "delete", path, FALSE, "DELETE")

get(i, path) == start(i, "get", path, FALSE, "DESCRIBE")

list(i, path) == start(i, "list", path, TRUE, "GET")

createFolder(i, path) == start(i, "createFolder", path, TRUE, "PUT")

deleteFolder(i, path) == start(i, "deleteFolder", path, TRUE, "DELETE")

download(i, path) == start(i, "download", path, FALSE, "GET")

downloadAsStream(i, path) == start(i, "downloadAsStream", path, FALSE, "GET")

\* headers of the PUT request of upload
uploadHeaders(sha256Checksum, contentTypeOverride) ==
    [AccessKey |-> apiAccessKey,
     Checksum |-> IF truthy(sha256Checksum) THEN sha256Checksum ELSE Null,
     OverrideContentType |->
        IF contentTypeOverride # <<>> THEN Str(contentTypeOverride) ELSE Null]

\* typeof input === "string"
isString(input) == input.type = "string"

\* input.pipe is truthy
hasPipe(input) == input.type = "stream"

\* reading input.pipe throws a TypeError
pipeReadThrows(input) == input.type \in {"null", "undefined"}

upload(i, input, storagePath, validateChecksum, sha256Checksum, contentTypeOverride) ==
    /\ calls[i].pc = "idle"
    /\ LET n == normalizePath(storagePath, FALSE)
           c == [IdleCall EXCEPT !.op = "upload", !.path = storagePath,
                    !.input = input, !.validateChecksum = validateChecksum,
                    !.sha256Arg = sha256Checksum,
                    !.sha256Checksum = sha256Checksum,
                    !.contentTypeOverride = contentTypeOverride]
           c1 == [c EXCEPT !.normalizedPath = n.path, !.stream = input.chunks]
       IN  IF ~n.ok
           THEN /\ calls' = [calls EXCEPT ![i] = raise(c, PathValidationError)]
                /\ UNCHANGED requests
           ELSE IF ~isString(input) /\ pipeReadThrows(input)
           THEN /\ calls' = [calls EXCEPT ![i] =
                        raise([c EXCEPT !.normalizedPath = n.path], Err("TypeError", <<>>))]
                /\ UNCHANGED requests
           ELSE IF ~isString(input) /\ ~hasPipe(input)
           THEN /\ calls' = [calls EXCEPT ![i] =
                        raise([c EXCEPT !.normalizedPath = n.path], Err("InvalidInput", <<>>))]
                /\ UNCHANGED requests
           ELSE IF validateChecksum /\ ~truthy(sha256Checksum)
           THEN /\ calls' = [calls EXCEPT ![i] = [c1 EXCEPT !.pc = "buffering"]]
                /\ UNCHANGED requests
           ELSE /\ calls' = [calls EXCEPT ![i] = [c1 EXCEPT !.pc = "awaiting"]]
                /\ requests' = [requests EXCEPT ![i] =
                        fetch(n.path, "PUT",
                              uploadHeaders(sha256Checksum, contentTypeOverride),
                              concat(input.chunks))]
    /\ UNCHANGED client

----------------------------------------------------------------------------
(* upload: #bufferStream and Checksum.generate *)

\* Variant: chunks.unshift(chunk)
push_unshift(chunks, chunk) == <<chunk>> \o chunks

\* chunks.push(chunk)
push(chunks, chunk) == Append(chunks, chunk)

\* one iteration of `for await (const chunk of stream)`
bufferStreamChunk(i) ==
    /\ calls[i].pc = "buffering"
    /\ calls[i].stream # <<>>
    /\ calls' = [calls EXCEPT ![i] =
            [@ EXCEPT !.chunks = push(@, Head(calls[i].stream)),
                      !.stream = Tail(@)]]
    /\ UNCHANGED <<client, requests>>

\* the input stream emits an error: the for-await loop throws
bufferStreamError(i) ==
    /\ calls[i].pc = "buffering"
    /\ calls' = [calls EXCEPT ![i] = raise(@, Err("StreamError", <<>>))]
    /\ UNCHANGED <<client, requests>>

\* the input stream ended: `return Buffer.concat(chunks)`, then
\* checksumStream.end(bufferedData) and the call of Checksum.generate
bufferStreamEnd(i) ==
    /\ calls[i].pc = "buffering"
    /\ calls[i].stream = <<>>
    /\ calls' = [calls EXCEPT ![i] =
            [@ EXCEPT !.pc = "hashing", !.bufferedData = concat(calls[i].chunks)]]
    /\ UNCHANGED <<client, requests>>

\* Checksum.generate resolved: stream = new PassThrough().end(bufferedData),
\* the headers are built and the PUT request is issued
generateResolve(i) ==
    /\ calls[i].pc = "hashing"
    /\ LET c == calls[i]
           sha == Str(generate(passThroughEnd(c.bufferedData)))
       IN  /\ calls' = [calls EXCEPT ![i] =
                   [c EXCEPT !.pc = "awaiting", !.sha256Checksum = sha]]
           /\ requests' = [requests EXCEPT ![i] =
                   fetch(c.normalizedPath, "PUT",
                         uploadHeaders(sha, c.contentTypeOverride),
                         concat(passThroughEnd(c.bufferedData)))]
    /\ UNCHANGED client

----------------------------------------------------------------------------
(* Public operations, after the response *)

\* Variant: delete throws the mapped error like the other operations
deleteResponse_throws(i, status) ==
    onResponse(i, "delete", status, return([calls[i] EXCEPT !.status = status], "true"))

\* return response.ok
deleteResponse(i, status) ==
    /\ calls[i].pc = "awaiting"
    /\ calls[i].op = "delete"
    /\ calls' = [calls EXCEPT ![i] =
            [return([@ EXCEPT !.status = status],
                    IF responseOk(status) THEN "true" ELSE "false")
                EXCEPT !.failure = ~responseOk(status)]]
    /\ UNCHANGED <<client, requests>>

decoding(c, status) == [c EXCEPT !.pc = "decoding", !.status = status]

getResponse(i, status) ==
    onResponse(i, "get", status, decoding(calls[i], status))

listResponse(i, status) ==
    onResponse(i, "list", status, decoding(calls[i], status))

createFolderResponse(i, status) ==
    onResponse(i, "createFolder", status, decoding(calls[i], status))

deleteFolderResponse(i, status) ==
    onResponse(i, "deleteFolder", status, decoding(calls[i], status))

uploadResponse(i, status) ==
    /\ calls[i].pc = "awaiting"
    /\ calls[i].op = "upload"
    /\ LET c == [calls[i] EXCEPT !.status = status]
       IN  calls' = [calls EXCEPT ![i] =
               IF ~responseOk(status)
               THEN IF status = 400 /\ truthy(c.sha256Checksum)
                    THEN raise(c, Err("ChecksumMismatch", c.normalizedPath))
                    ELSE raise(c, mapResponseToException(status, c.normalizedPath))
               ELSE decoding(c, status)]
    /\ UNCHANGED <<client, requests>>

\* fs.createWriteStream, stream.pipeline(...) started, `return fileStream`
downloadResponse(i, status) ==
    onResponse(i, "download", status,
        [return([calls[i] EXCEPT !.status = status], "fileStream")
            EXCEPT !.copy = "running"])

\* return response.body
downloadAsStreamResponse(i, status) ==
    onResponse(i, "downloadAsStream", status,
        return([calls[i] EXCEPT !.status = status], "body"))

\* what the method returns once response.json() resolved
decoded(op) ==
    CASE op = "get" -> "StorageObject"
      [] op = "list" -> "StorageObjectArray"
      [] OTHER -> "json"

\* `await response.json()` resolved
jsonResolve(i) ==
    /\ calls[i].pc = "decoding"
    /\ calls' = [calls EXCEPT ![i] = return(@, decoded(calls[i].op))]
    /\ UNCHANGED <<client, requests>>

\* `await response.json()` rejected: the body is not JSON
jsonReject(i) ==
    /\ calls[i].pc = "decoding"
    /\ calls' = [calls EXCEPT ![i] = raise(@, Err("SyntaxError", <<>>))]
    /\ UNCHANGED <<client, requests>>

\* `await fetch(...)` rejected: network failure
fetchReject(i) ==
    /\ calls[i].pc = "awaiting"
    /\ calls' = [calls EXCEPT ![i] = raise(@, Err("TransportError", <<>>))]
    /\ UNCHANGED <<client, requests>>

\* the callback `() => { /* do nothing */ }` given to stream.pipeline;
\* its argument is the error of the copy, or absent when the copy completed
pipelineCallback(c, failed) ==
    [c EXCEPT !.copy = IF failed THEN "failed" ELSE "finished",
              !.failure = c.failure \/ failed]

\* the copy of response.body to the local file completed
pipelineEnd(i) ==
    /\ calls[i].copy = "running"
    /\ calls' = [calls EXCEPT ![i] = pipelineCallback(@, FALSE)]
    /\ UNCHANGED <<client, requests>>

\* the copy of response.body to the local file failed
pipelineError(i) ==
    /\ calls[i].copy = "running"
    /\ calls' = [calls EXCEPT ![i] = pipelineCallback(@, TRUE)]
    /\ UNCHANGED <<client, requests>>

\* the caller has consumed the outcome; the slot is free for a new invocation
finish(i) ==
    /\ calls[i].pc = "done"
    /\ calls[i].copy # "running"
    /\ calls' = [calls EXCEPT ![i] = IdleCall]
    /\ requests' = [requests EXCEPT ![i] = NoRequest]
    /\ UNCHANGED client

----------------------------------------------------------------------------
(* Inputs *)

TheZone == <<"z">>
TheKey == <<"k">>
TheRegion == <<"n", "y">>

\* "/z/z" and "z\ z" are accepted and normalize to different paths; "zz/" is rejected
SomePaths == { <<"/", "z", "/", "z">>, <<"z", "\\", " ", "z">>, <<"z", "z", "/">> }

UploadArgs(inputs, checksums, overrides) ==
    [input : inputs, validateChecksum : BOOLEAN,
     sha256Checksum : checksums, contentTypeOverride : overrides]

StreamInputs(streams) == [type : {"string", "stream"}, chunks : streams]
OtherInputs == [type : InputTypes \ {"string", "stream"}, chunks : {<<>>}]

AllUploads ==
    UploadArgs(StreamInputs(AllStreams) \cup OtherInputs,
               {Null, Str(<<>>), Str(generate(<<<<0>>>>))},
               {<<>>, <<"t">>})

SomeUploads ==
    UploadArgs(StreamInputs({<<<<0>>, <<1>>>>}), {Null}, {<<>>})

\* The arguments of the concurrent invocations: "/z/z" and "z\ z" again
TwoPaths == { <<"/", "z", "/", "z">>, <<"z", "\\", " ", "z">> }

OneUpload ==
    { [input |-> [type |-> "stream", chunks |-> <<<<0, 1>>>>], validateChecksum |-> TRUE,
       sha256Checksum |-> Null, contentTypeOverride |-> <<>>] }

----------------------------------------------------------------------------
(* Specifications *)

\* Slot i runs no invocation
idle(i) == calls[i].pc = "idle"

\* One step of invocation slot i, its arguments and the response status
\* drawn from the given sets
step(i, paths, uploads, statuses) ==
    \/ idle(i) /\ \E path \in paths : delete(i, path)
    \/ idle(i) /\ \E path \in paths : get(i, path)
    \/ idle(i) /\ \E path \in paths : list(i, path)
    \/ idle(i) /\ \E path \in paths, u \in uploads :
          upload(i, u.input, path, u.validateChecksum, u.sha256Checksum,
                 u.contentTypeOverride)
    \/ idle(i) /\ \E path \in paths : createFolder(i, path)
    \/ idle(i) /\ \E path \in paths : deleteFolder(i, path)
    \/ idle(i) /\ \E path \in paths : download(i, path)
    \/ idle(i) /\ \E path \in paths : downloadAsStream(i, path)
    \/ bufferStreamChunk(i)
    \/ bufferStreamError(i)
    \/ bufferStreamEnd(i)
    \/ generateResolve(i)
    \/ \E status \in statuses : deleteResponse(i, status)
    \/ \E status \in statuses : getResponse(i, status)
    \/ \E status \in statuses : listResponse(i, status)
    \/ \E status \in statuses : uploadResponse(i, status)
    \/ \E status \in statuses : createFolderResponse(i, status)
    \/ \E status \in statuses : deleteFolderResponse(i, status)
    \/ \E status \in statuses : downloadResponse(i, status)
    \/ \E status \in statuses : downloadAsStreamResponse(i, status)
    \/ jsonResolve(i)
    \/ jsonReject(i)
    \/ fetchReject(i)
    \/ pipelineEnd(i)
    \/ pipelineError(i)
    \/ finish(i)

\* Concurrent invocations on one client
Init == construct(TheZone, TheKey, TheRegion)
Next == \E i \in Procs : step(i, TwoPaths, OneUpload, {200, 404})
Spec == Init /\ [][Next]_vars

\* One invocation at a time, every upload argument and every status
InitOps == construct(TheZone, TheKey, TheRegion)
NextOps == step(1, SomePaths, AllUploads, Statuses)
SpecOps == InitOps /\ [][NextOps]_vars

\* One invocation at a time, every zone name and every raw path
InitPath == \E zone \in AllZones : construct(zone, TheKey, TheRegion)
NextPath == step(1, AllPaths, SomeUploads, {200, 404})
SpecPath == InitPath /\ [][NextPath]_vars

\* One invocation at a time, every region code
InitRegion == \E region \in AllRegions : construct(TheZone, TheKey, region)
NextRegion == step(1, SomePaths, SomeUploads, {200, 404})
SpecRegion == InitRegion /\ [][NextRegion]_vars

----------------------------------------------------------------------------
(* Path validation and normalization (SpecPath) *)

\* The invocation in slot i got past #normalizePath
normalized(i) == calls[i].pc # "idle" /\ calls[i].error.kind # "PathValidation"

\* C1: in every public operation, a path that after trimming, backslash
\* replacement and stripping of leading slashes does not start with
\* "{zoneName}/" makes the operation fail with the validation error, and
\* no HTTP request is issued for the invocation.
C1_InvalidPathRejected ==
    \A i \in Procs :
        (/\ calls[i].pc # "idle"
         /\ ~startsWith(cleanPath(calls[i].path), storageZoneName \o <<"/">>))
        => /\ calls[i].pc = "done"
           /\ calls[i].outcome = "raised"
           /\ calls[i].error.kind = "PathValidation"
           /\ ~requests[i].issued

\* "zz/..." under zone "z": the zone name is a prefix, "{zoneName}/" is not
C1_Witness ==
    /\ storageZoneName = <<"z">>
    /\ calls[1].op = "upload"
    /\ calls[1].path = <<" ", "\\", "z", "z">>
    /\ calls[1].outcome = "raised"
    /\ calls[1].error.kind = "PathValidation"

\* C2 as stated: for every zone name, normalizing a normalized path with
\* the same directory flag succeeds and returns it unchanged.
C2_IdempotentEveryZone ==
    \A i \in Procs :
        normalized(i) =>
            normalizePath(calls[i].normalizedPath, isDirectoryOp(calls[i].op))
                = [ok |-> TRUE, path |-> calls[i].normalizedPath]

\* "{zoneName}/" has no leading whitespace and no two consecutive slashes
plainZone ==
    LET prefix == storageZoneName \o <<"/">>
    IN  /\ Head(prefix) \notin Whitespace
        /\ \A k \in 1..(Len(prefix) - 1) : ~(prefix[k] = "/" /\ prefix[k + 1] = "/")

\* C2 (amended): for every zone name that does not begin with whitespace,
\* does not end with a slash and contains no two consecutive slashes,
\* normalizing a normalized path with the same directory flag succeeds and
\* returns it unchanged.
C2_IdempotentPlainZone == plainZone => C2_IdempotentEveryZone

\* a directory path with a backslash run that was accepted and collapsed
C2_Witness ==
    /\ plainZone
    /\ calls[1].op = "createFolder"
    /\ calls[1].path = <<"/", "z", "\\", "\\">>
    /\ calls[1].normalizedPath = <<"z", "/">>
    /\ requests[1].issued

\* C3: directory-mode normalization (list, createFolder, deleteFolder) of
\* an accepted path ends in exactly one slash and has no two consecutive
\* slashes anywhere.
C3_DirectoryPathShape ==
    \A i \in Procs :
        (normalized(i) /\ calls[i].op \in {"list", "createFolder", "deleteFolder"})
        => LET np == calls[i].normalizedPath
           IN  /\ np # <<>>
               /\ np[Len(np)] = "/"
               /\ \A k \in 1..(Len(np) - 1) : ~(np[k] = "/" /\ np[k + 1] = "/")

\* list of "z/\/": a run of three separators at the end of the input
C3_Witness ==
    /\ calls[1].op = "list"
    /\ calls[1].path = <<"z", "/", "\\", "/">>
    /\ calls[1].pc = "awaiting"
    /\ requests[1].issued

----------------------------------------------------------------------------
(* Region resolution (SpecRegion) *)

\* C4: the base address is "https://storage.bunnycdn.com/" when the region
\* code is empty or is "de" in any letter case, and otherwise
\* "https://{code}.storage.bunnycdn.com/" with the code as given; "ny"
\* gives "https://ny.storage.bunnycdn.com/".  It stays so while operations run.
C4_RegionResolution ==
    LET scheme == <<"h","t","t","p","s",":","/","/">>
        host == <<"s","t","o","r","a","g","e",".","b","u","n","n","y","c","d","n",".","c","o","m","/">>
    IN  /\ mainRegion \in {<<>>, <<"d","e">>, <<"D","e">>, <<"d","E">>, <<"D","E">>}
              => baseAddress = scheme \o host
        /\ mainRegion \notin {<<>>, <<"d","e">>, <<"D","e">>, <<"d","E">>, <<"D","E">>}
              => baseAddress = scheme \o mainRegion \o <<".">> \o host
        /\ mainRegion = <<"n","y">>
              => baseAddress = <<"h","t","t","p","s",":","/","/","n","y",".">> \o host

\* a client constructed with "De" has issued a request
C4_Witness ==
    /\ mainRegion = <<"D", "e">>
    /\ calls[1].op = "get"
    /\ requests[1].issued
    /\ startsWith(requests[1].url, DefaultAddress)

----------------------------------------------------------------------------
(* Responses (SpecOps) *)

ThrowingOps ==
    {"get", "list", "upload", "createFolder", "deleteFolder", "download",
     "downloadAsStream"}

MappedKinds == {"NotFound", "Unauthorized", "ChecksumMismatch", "InvalidPath", "Unknown"}

\* The invocation in slot i has received a response
responded(i) == calls[i].status # 0

\* C5: for get, list, upload, createFolder, deleteFolder, download and
\* downloadAsStream a non-2xx response raises one error chosen by the status:
\* 404 NotFound with the normalized path, 401 Unauthorized with the zone
\* name, 400 ChecksumMismatch when the operation is upload and a Checksum
\* header was sent and InvalidPath otherwise, any other status Unknown; a
\* 2xx response raises none of these.
C5_StatusMapping ==
    \A i \in Procs :
        (responded(i) /\ calls[i].op \in ThrowingOps)
        => LET c == calls[i]
               st == c.status
           IN  IF st \in 200..299
               THEN c.error.kind \notin MappedKinds
               ELSE /\ c.pc = "done"
                    /\ c.outcome = "raised"
                    /\ st = 404 => c.error = Err("NotFound", c.normalizedPath)
                    /\ st = 401 => c.error = Err("Unauthorized", storageZoneName)
                    /\ (st = 400 /\ c.op = "upload" /\ ~requests[i].headers.Checksum.null)
                          => c.error.kind = "ChecksumMismatch"
                    /\ (st = 400 /\ ~(c.op = "upload" /\ ~requests[i].headers.Checksum.null))
                          => c.error.kind = "InvalidPath"
                    /\ st \notin {400, 401, 404} => c.error.kind = "Unknown"

\* an upload without checksum validation whose given checksum was sent
\* and answered by 400
C5_Witness ==
    /\ calls[1].op = "upload"
    /\ ~calls[1].validateChecksum
    /\ ~requests[1].headers.Checksum.null
    /\ calls[1].status = 400
    /\ calls[1].error.kind = "ChecksumMismatch"

\* C6: delete with an accepted path returns true exactly on a 2xx status
\* and false on every other status, without raising; deleteFolder raises
\* the mapped error on the same non-2xx statuses.
C6_DeleteReturnsBoolean ==
    \A i \in Procs :
        responded(i) =>
            /\ calls[i].op = "delete" =>
                  /\ calls[i].pc = "done"
                  /\ calls[i].outcome = "returned"
                  /\ calls[i].error = NoError
                  /\ calls[i].value = IF calls[i].status \in 200..299 THEN "true" ELSE "false"
            /\ (calls[i].op = "deleteFolder" /\ calls[i].status \notin 200..299) =>
                  /\ calls[i].outcome = "raised"
                  /\ calls[i].error.kind \in MappedKinds

\* delete answered by 404 returned false
C6_Witness ==
    /\ calls[1].op = "delete"
    /\ calls[1].status = 404
    /\ calls[1].outcome = "returned"
    /\ calls[1].value = "false"

\* C7: upload with validateChecksum and no checksum given issues its PUT
\* only after the input stream was read to its end, with the Checksum header
\* the lowercase hex digest of the concatenation of all chunks in order and
\* with exactly that concatenation as body.
C7_BufferedUpload ==
    \A i \in Procs :
        (/\ calls[i].op = "upload"
         /\ calls[i].validateChecksum
         /\ ~truthy(calls[i].sha256Arg)
         /\ requests[i].issued)
        => LET payload == concat(calls[i].input.chunks)
           IN  /\ calls[i].stream = <<>>
               /\ requests[i].method = "PUT"
               /\ requests[i].headers.Checksum = Str(sha256Hex(payload))
               /\ requests[i].body = payload

\* two chunks <<0>>, <<1, 0>> were buffered, hashed and sent
C7_Witness ==
    /\ calls[1].op = "upload"
    /\ calls[1].validateChecksum
    /\ calls[1].sha256Arg = Str(<<>>)
    /\ calls[1].input.chunks = << <<0>>, <<1, 0>> >>
    /\ requests[1].issued
    /\ requests[1].body = <<0, 1, 0>>

\* C8: no failure is swallowed: whenever a failure occurred during an
\* invocation (path validation, non-2xx status, input stream error, failed
\* copy of the response body to the local file), the caller got a raised
\* error or, for delete, the result false.
C8_NoSilentFailure ==
    \A i \in Procs :
        calls[i].failure =>
            \/ calls[i].outcome = "raised"
            \/ calls[i].op = "delete" /\ calls[i].value = "false"

\* C9: upload with an accepted storage path and an input that is neither a
\* string nor a stream (null, undefined, number, boolean, plain object)
\* fails with the invalid-input error and issues no HTTP request.
C9_InvalidInputRejected ==
    \A i \in Procs :
        (/\ calls[i].op = "upload"
         /\ normalized(i)
         /\ calls[i].input.type \notin {"string", "stream"})
        => /\ calls[i].outcome = "raised"
           /\ calls[i].error.kind = "InvalidInput"
           /\ ~requests[i].issued

----------------------------------------------------------------------------
(* Concurrent invocations (Spec) *)

\* Every request in flight is the one its own invocation asked for
OwnRequests ==
    \A i \in Procs :
        requests[i].issued =>
            /\ normalizePath(calls[i].path, isDirectoryOp(calls[i].op))
                  = [ok |-> TRUE, path |-> calls[i].normalizedPath]
            /\ requests[i].url = baseAddress \o calls[i].normalizedPath
            /\ requests[i].headers.AccessKey = apiAccessKey

\* The client keeps the configuration it was constructed with
ConfigKept ==
    /\ storageZoneName = TheZone
    /\ apiAccessKey = TheKey
    /\ baseAddress = <<"h","t","t","p","s",":","/","/","n","y",".","s","t","o","r","a","g","e",
                       ".","b","u","n","n","y","c","d","n",".","c","o","m","/">>

\* A step of one invocation leaves every other invocation as it was
NoInterference ==
    \A i, j \in Procs :
        (i # j /\ calls'[i] # calls[i])
        => (calls'[j] = calls[j] /\ requests'[j] = requests[j])

\* C10: under any interleaving of invocations on one client the zone name,
\* access key and base address keep their construction values, every request
\* targets base address + the invocation's own normalized path with the
\* configured access key as AccessKey header, and no step of one invocation
\* changes another invocation.
C10_ConcurrentCalls ==
    /\ [](ConfigKept /\ OwnRequests)
    /\ [][NoInterference]_vars

\* two invocations suspended at fetch at once, with different targets
C10_Witness ==
    /\ calls[1].pc = "awaiting"
    /\ calls[2].pc = "awaiting"
    /\ requests[1].issued
    /\ requests[2].issued
    /\ requests[1].url # requests[2].url

====
